---- MODULE Spec2Model ----
(***************************************************************************)
(* The gNMI -> NATS publisher (cmd/publisher/publisher.go): main, the      *)
(* signal goroutine of main, collectTelemetry with its stop goroutine and  *)
(* its Subscribe goroutine, the select loop, and sendToNats; and the NATS   *)
(* subscriber (cmd/subscriber/subscriber.go), a program of its own.        *)
(*                                                                         *)
(* One action is one step of one goroutine (or of the environment: the OS  *)
(* delivering a signal, the telemetry source emitting, time passing while  *)
(* a publish call is in progress).  Go's select picks any ready case, so   *)
(* each ready case of a select is its own action.                          *)
(***************************************************************************)
EXTENDS Integers, Sequences, FiniteSets, TLC

\* ---- bounds of the model ------------------------------------------------
MaxUpdates == 2      \* Updates the source emits in one run
MaxQueue == 2        \* capacity of subRspChan and of subErrChan
MaxMsgs == 3         \* messages the bus delivers to the subscriber in one run

\* ---- program constants --------------------------------------------------
PublishTimeout == 5  \* context.WithTimeout(ctx, 5*time.Second)
ConnectTimeout == 5  \* nats.Timeout(5*time.Second)

NatsURL == "127.0.0.1:4222"       \* tt.Config.NatsURL
Topic == "interface-counters"     \* tt.Config.Topic
SubName == "sub1"                 \* the subscription name

Signals == {"SIGINT", "SIGTERM"}
Kinds == {"ok", "bad", "empty"}   \* what Marshal makes of a response

VARIABLES
  proc,          \* "running" | "exit0" | "fatal": the process
  mainPc,        \* position of the main goroutine
  ctErr,         \* the error collectTelemetry returned ("nil": none)
  ctxDone,       \* the root context is cancelled
  cancelCalls,   \* calls of the root cancel()
  cancelEffects, \* calls of cancel() that changed the root context
  mainSigs,      \* signals buffered in main's sigs channel (capacity 1)
  ctSigs,        \* signals buffered in collectTelemetry's sigs channel
  ctNotify,      \* collectTelemetry's signal.Notify has run
  sigG,          \* main's signal goroutine: "waiting" | "got" | "done"
  stopG,         \* stop goroutine: "none" | "waiting" | "inStop" | "done"
  stopCalls,     \* sequence of names StopSubscription was called with
  subG,          \* Subscribe goroutine: "none" | "spawned" | "streaming" | "failed"
  subscribeCalls,\* calls of Target.Subscribe
  nextUpd,       \* id of the next Update the source emits
  subRspChan,    \* responses queued for the loop
  subErrChan,    \* number of TargetErrors queued for the loop
  cur,           \* id of the Update whose publish call is in progress (0: none)
  elapsed,       \* time since the publish context was created
  pubCtxErr,     \* publishCtx.Err(): "nil" | "canceled" | "deadline"
  res,           \* error sendToNats is about to return ("nil": none)
  bornDone,      \* publishCtx was derived from an already cancelled root
  opened,        \* connections nats.Connect has established
  closed,        \* connections nc.Close() has closed
  consumed,      \* the responses the loop received, in order
  calls,         \* sendToNats calls issued, in order
  returns,       \* sendToNats calls returned, in order
  busMsgs,       \* messages nc.Publish handed to the bus, in order
  loopReturns    \* times the select loop returned

\* The subscriber program (cmd/subscriber/subscriber.go): a record of
\*   pc           position of its main, or how the process ended
\*   nc           its connection: "none" | "open" | "draining" | "closed"
\*   sub          its subscription: "none" | "active" | "closed"
\*   c            signals buffered in its channel c (capacity 1)
\*   nextMsg      id of the next message the bus delivers to it
\*   pending      messages delivered to the subscription, callback not yet run
\*   handled      ids of the messages handed to the message callback
\*   sigReceived  <-c has returned
\*   pendingAtSig ids of the messages pending when <-c returned
VARIABLE subscriber

publisherVars == << proc, mainPc, ctErr, ctxDone, cancelCalls, cancelEffects, mainSigs,
           ctSigs, ctNotify, sigG, stopG, stopCalls, subG,
           subscribeCalls, nextUpd, subRspChan, subErrChan, cur, elapsed,
           pubCtxErr, res, bornDone, opened, closed, consumed, calls, returns,
           busMsgs, loopReturns >>

vars == << publisherVars, subscriber >>

mainVars == << proc, mainPc, ctErr >>
ctxVars == << ctxDone, cancelCalls, cancelEffects >>
sigVars == << mainSigs, ctSigs >>
srcVars == << subG, subscribeCalls, nextUpd >>
pubVars == << cur, elapsed, pubCtxErr, res, bornDone, opened, closed >>
histVars == << consumed, calls, returns, busMsgs >>

\* ---- helpers ------------------------------------------------------------

\* The loop is between line 113 and its return: the state the spec calls Running.
Running == mainPc \in {"wait", "connect", "check", "publish", "close"}

\* A sendToNats call is in progress.
InSend == mainPc \in {"connect", "check", "publish", "close"}

\* formatters.MarshalOptions.Marshal: an error, or the encoded bytes (which
\* may be empty); the bytes of an encodable response carry its payload.
Marshal(rsp) ==
  IF rsp.kind = "bad" THEN [err |-> TRUE, out |-> << >>]
  ELSE IF rsp.kind = "empty" THEN [err |-> FALSE, out |-> << >>]
  ELSE [err |-> FALSE, out |-> << "json", rsp.id >>]

\* make(chan os.Signal, 1) under signal.Notify: the send does not block, a
\* signal that finds the buffer full is dropped.  Both receivers discard the
\* value they receive, so a channel is the number of signals it holds.
SigsCap == 1
NotifySend(ch, s) == IF ch < SigsCap THEN ch + 1 ELSE ch

\* The subscriber before line 13.
SubscriberInit ==
  subscriber = [pc |-> "connect", nc |-> "none", sub |-> "none", c |-> 0,
                nextMsg |-> 1, pending |-> << >>, handled |-> {},
                sigReceived |-> FALSE, pendingAtSig |-> {}]

Init ==
  /\ SubscriberInit
  /\ proc = "running" /\ mainPc = "newTarget" /\ ctErr = "nil"
  /\ ctxDone = FALSE /\ cancelCalls = 0 /\ cancelEffects = 0
  /\ mainSigs = 0 /\ ctSigs = 0 /\ ctNotify = FALSE
  /\ sigG = "waiting" /\ stopG = "none" /\ stopCalls = << >>
  /\ subG = "none" /\ subscribeCalls = 0 /\ nextUpd = 1
  /\ subRspChan = << >> /\ subErrChan = 0
  /\ cur = 0 /\ elapsed = 0 /\ pubCtxErr = "nil" /\ res = "nil" /\ bornDone = FALSE
  /\ opened = 0 /\ closed = 0
  /\ consumed = << >> /\ calls = << >> /\ returns = << >> /\ busMsgs = << >>
  /\ loopReturns = 0


\* ---- main: set-up (lines 221-227, 72-112) --------------------------------

\* api.NewTarget succeeds or fails; a failure is log.Fatalf (exit status 1).
NewTarget(ok) ==
  /\ proc = "running" /\ mainPc = "newTarget"
  /\ IF ok THEN /\ mainPc' = "createClient" /\ proc' = proc
           ELSE /\ mainPc' = "fatal" /\ proc' = "fatal"
  /\ UNCHANGED << ctErr, ctxVars, sigVars, ctNotify, sigG, stopG, stopCalls,
                  srcVars, subRspChan, subErrChan, pubVars, histVars,
                  loopReturns >>
  /\ UNCHANGED subscriber

\* tt.Target.CreateGNMIClient(ctx): a failure makes collectTelemetry return
\* the error to main, which discards it.
CreateClient(ok) ==
  /\ proc = "running" /\ mainPc = "createClient"
  /\ IF ok THEN /\ mainPc' = "newSubReq" /\ ctErr' = ctErr
           ELSE /\ mainPc' = "returned" /\ ctErr' = "creating GNMI client"
  /\ UNCHANGED << proc, ctxVars, sigVars, ctNotify, sigG, stopG, stopCalls,
                  srcVars, subRspChan, subErrChan, pubVars, histVars,
                  loopReturns >>
  /\ UNCHANGED subscriber

\* api.NewSubscribeRequest: a failure makes collectTelemetry return the error.
NewSubReq(ok) ==
  /\ proc = "running" /\ mainPc = "newSubReq"
  /\ IF ok THEN /\ mainPc' = "start" /\ ctErr' = ctErr
           ELSE /\ mainPc' = "returned"
                /\ ctErr' = "creating subscribe request"
  /\ UNCHANGED << proc, ctxVars, sigVars, ctNotify, sigG, stopG, stopCalls,
                  srcVars, subRspChan, subErrChan, pubVars, histVars,
                  loopReturns >>
  /\ UNCHANGED subscriber

\* Lines 97-112: register the second sigs channel, start the stop goroutine,
\* start the Subscribe goroutine, read the two channels, enter the loop.
StartStreaming ==
  /\ proc = "running" /\ mainPc = "start"
  /\ ctNotify' = TRUE
  /\ stopG' = "waiting"
  /\ subG' = "spawned"
  /\ mainPc' = "wait"
  /\ UNCHANGED << proc, ctErr, ctxVars, sigVars, sigG, stopCalls,
                  subscribeCalls, nextUpd, subRspChan, subErrChan, pubVars,
                  histVars, loopReturns >>
  /\ UNCHANGED subscriber

\* A termination signal has been delivered: the first one always finds room
\* in main's sigs, which only main's signal goroutine empties.
SignalSeen == mainSigs > 0 \/ sigG # "waiting"

\* ---- the root context ----------------------------------------------------

\* One call of the root cancel(): the first call cancels the root context
\* and, with it, a publish context derived from it; later calls do nothing.
RootCancel ==
  /\ cancelCalls' = cancelCalls + 1
  /\ ctxDone' = TRUE
  /\ cancelEffects' = IF ctxDone THEN cancelEffects ELSE cancelEffects + 1
  /\ pubCtxErr' = IF InSend /\ pubCtxErr = "nil" THEN "canceled" ELSE pubCtxErr

\* ---- signals --------------------------------------------------------------

\* The OS delivers SIGINT or SIGTERM, any number of times: the runtime offers
\* it to every channel registered with signal.Notify.
Signal(s) ==
  /\ proc = "running"
  /\ mainSigs' = NotifySend(mainSigs, s)
  /\ ctSigs' = IF ctNotify THEN NotifySend(ctSigs, s) ELSE ctSigs
  /\ UNCHANGED << mainVars, ctxVars, ctNotify, sigG, stopG, stopCalls, srcVars,
                  subRspChan, subErrChan, pubVars, histVars, loopReturns >>
  /\ UNCHANGED subscriber

\* main's goroutine, line 217: <-sigs.
SigRecv ==
  /\ proc = "running" /\ sigG = "waiting" /\ mainSigs > 0
  /\ mainSigs' = mainSigs - 1
  /\ sigG' = "got"
  /\ UNCHANGED << mainVars, ctxVars, ctSigs, ctNotify, stopG,
                  stopCalls, srcVars, subRspChan, subErrChan, pubVars,
                  histVars, loopReturns >>
  /\ UNCHANGED subscriber

\* Mutant of SigCancel: the goroutine logs the signal and forgets cancel().
SigCancel_NoCancel ==
  /\ proc = "running" /\ sigG = "got"
  /\ sigG' = "done"
  /\ UNCHANGED << mainVars, ctxVars, sigVars, ctNotify, stopG, stopCalls,
                  srcVars, subRspChan, subErrChan, pubVars, histVars,
                  loopReturns >>
  /\ UNCHANGED subscriber

\* main's goroutine, lines 218-219: log, cancel().
SigCancel ==
  /\ proc = "running" /\ sigG = "got"
  /\ RootCancel
  /\ sigG' = "done"
  /\ UNCHANGED << mainVars, sigVars, ctNotify, stopG, stopCalls, srcVars,
                  subRspChan, subErrChan, cur, elapsed, res, bornDone,
                  opened, closed, histVars, loopReturns >>
  /\ UNCHANGED subscriber

\* Mutant of StopOnSignal: the stop goroutine loops, stopping the
\* subscription once per signal it receives.
StopOnSignal_PerSignal ==
  /\ proc = "running" /\ stopG = "waiting" /\ ctSigs > 0
  /\ ctSigs' = ctSigs - 1
  /\ stopG' = "waiting"
  /\ stopCalls' = Append(stopCalls, SubName)
  /\ Len(stopCalls) < 2
  /\ UNCHANGED << mainVars, ctxVars, mainSigs, ctNotify, sigG, srcVars, subRspChan, subErrChan, pubVars, histVars,
                  loopReturns >>
  /\ UNCHANGED subscriber

\* The stop goroutine, lines 101-105: the select takes the signal case.
StopOnSignal ==
  /\ proc = "running" /\ stopG = "waiting" /\ ctSigs > 0
  /\ ctSigs' = ctSigs - 1
  /\ stopG' = "inStop"
  /\ stopCalls' = Append(stopCalls, SubName)
  /\ UNCHANGED << mainVars, ctxVars, mainSigs, ctNotify, sigG,
                  srcVars, subRspChan, subErrChan, pubVars, histVars,
                  loopReturns >>
  /\ UNCHANGED subscriber

\* Mutant of StopOnCtxDone: the stop goroutine does not wait for its select
\* and stops the subscription as soon as it runs.
StopOnCtxDone_Unguarded ==
  /\ proc = "running" /\ stopG = "waiting"
  /\ stopG' = "inStop"
  /\ stopCalls' = Append(stopCalls, SubName)
  /\ UNCHANGED << mainVars, ctxVars, sigVars, ctNotify, sigG, srcVars,
                  subRspChan, subErrChan, pubVars, histVars, loopReturns >>
  /\ UNCHANGED subscriber

\* The stop goroutine, lines 101-105: the select takes the ctx.Done() case.
StopOnCtxDone ==
  /\ proc = "running" /\ stopG = "waiting" /\ ctxDone
  /\ stopG' = "inStop"
  /\ stopCalls' = Append(stopCalls, SubName)
  /\ UNCHANGED << mainVars, ctxVars, sigVars, ctNotify, sigG, srcVars,
                  subRspChan, subErrChan, pubVars, histVars, loopReturns >>
  /\ UNCHANGED subscriber

\* StopSubscription returns (it need not: no fairness is assumed of it).
StopReturn ==
  /\ proc = "running" /\ stopG = "inStop"
  /\ stopG' = "done"
  /\ UNCHANGED << mainVars, ctxVars, sigVars, ctNotify, sigG, stopCalls,
                  srcVars, subRspChan, subErrChan, pubVars, histVars,
                  loopReturns >>
  /\ UNCHANGED subscriber


\* ---- the telemetry source (gnmic Target behind lines 109 and 112) ---------

\* The Subscribe goroutine runs Target.Subscribe(ctx, subReq, "sub1"): the
\* stream starts, or the call fails and reports a TargetError on subErrChan.
SubscribeRun(ok) ==
  /\ proc = "running" /\ subG = "spawned"
  /\ subscribeCalls' = subscribeCalls + 1
  /\ IF ok THEN /\ subG' = "streaming" /\ subErrChan' = subErrChan
           ELSE /\ subErrChan < MaxQueue
                /\ subG' = "failed" /\ subErrChan' = subErrChan + 1
  /\ UNCHANGED << mainVars, ctxVars, sigVars, ctNotify, sigG, stopG, stopCalls,
                  nextUpd, subRspChan, pubVars, histVars, loopReturns >>
  /\ UNCHANGED subscriber

\* The source emits its next Update onto subRspChan.  Nothing obliges it to:
\* a stream that has ended (after StopSubscription or the cancellation of
\* ctx) is a stream that emits no more.
SourceEmitUpdate(kind) ==
  /\ proc = "running" /\ subG = "streaming"
  /\ nextUpd <= MaxUpdates /\ Len(subRspChan) < MaxQueue
  /\ subRspChan' = Append(subRspChan, [id |-> nextUpd, kind |-> kind])
  /\ nextUpd' = nextUpd + 1
  /\ UNCHANGED << mainVars, ctxVars, sigVars, ctNotify, sigG, stopG, stopCalls,
                  subG, subscribeCalls, subErrChan, pubVars, histVars,
                  loopReturns >>
  /\ UNCHANGED subscriber

\* The stream reports a TargetError onto subErrChan.
SourceEmitError ==
  /\ proc = "running" /\ subG = "streaming"
  /\ subErrChan < MaxQueue
  /\ subErrChan' = subErrChan + 1
  /\ UNCHANGED << mainVars, ctxVars, sigVars, ctNotify, sigG, stopG, stopCalls,
                  srcVars, subRspChan, pubVars, histVars, loopReturns >>
  /\ UNCHANGED subscriber

\* ---- the select loop of collectTelemetry (lines 113-142) ------------------

\* Mutant of RecvRsp: the newest queued response is received first.
RecvRsp_Newest(ch) == ch[Len(ch)]

\* What `rsp := <-subRspChan` receives, and what it leaves in the channel.
RecvRsp(ch) == Head(ch)
RestRsp(ch) == Tail(ch)

\* The arguments of the sendToNats call on line 128.
SendArgs(rsp) ==
  [upd |-> rsp.id, natsURL |-> NatsURL, subject |-> Topic,
   telemetryData |-> Marshal(rsp).out]

\* Lines 117-124: a response is published iff it marshals without an error
\* to a non-empty output.
Publishable(rsp) == ~Marshal(rsp).err /\ Len(Marshal(rsp).out) > 0

\* Mutant of LoopRecvRsp: sendToNats runs in a goroutine of its own, so the
\* loop receives the next response while a call is in progress.
LoopRecvRsp_Concurrent ==
  /\ proc = "running" /\ Running /\ subRspChan # << >>
  /\ LET rsp == RecvRsp(subRspChan) IN
       /\ subRspChan' = RestRsp(subRspChan)
       /\ consumed' = Append(consumed, rsp)
       /\ IF Publishable(rsp)
            THEN /\ mainPc' = "connect"
                 /\ cur' = rsp.id
                 /\ pubCtxErr' = IF ctxDone THEN "canceled" ELSE "nil"
                 /\ bornDone' = ctxDone
                 /\ calls' = Append(calls, SendArgs(rsp))
            ELSE /\ mainPc' = "wait"
                 /\ UNCHANGED << cur, pubCtxErr, bornDone, calls >>
  /\ elapsed' = 0
  /\ UNCHANGED << proc, ctErr, ctxVars, sigVars, ctNotify, sigG, stopG,
                  stopCalls, srcVars, subErrChan, res, opened, closed,
                  returns, busMsgs, loopReturns >>
  /\ UNCHANGED subscriber

\* Mutant of LoopRecvRsp: publishCtx is derived from context.Background(),
\* not from ctx, so it is live when ctx is already cancelled.
LoopRecvRsp_Background ==
  /\ proc = "running" /\ mainPc = "wait" /\ subRspChan # << >>
  /\ LET rsp == RecvRsp(subRspChan) IN
       /\ subRspChan' = RestRsp(subRspChan)
       /\ consumed' = Append(consumed, rsp)
       /\ IF Publishable(rsp)
            THEN /\ mainPc' = "connect"
                 /\ cur' = rsp.id
                 /\ pubCtxErr' = "nil"
                 /\ bornDone' = ctxDone
                 /\ calls' = Append(calls, SendArgs(rsp))
            ELSE /\ mainPc' = "wait"
                 /\ UNCHANGED << cur, pubCtxErr, bornDone, calls >>
  /\ elapsed' = 0
  /\ UNCHANGED << proc, ctErr, ctxVars, sigVars, ctNotify, sigG, stopG,
                  stopCalls, srcVars, subErrChan, res, opened, closed,
                  returns, busMsgs, loopReturns >>
  /\ UNCHANGED subscriber

\* case rsp := <-subRspChan (lines 115-128): marshal; on an error or an empty
\* output go back to the select, else create publishCtx and call sendToNats,
\* which starts with nats.Connect.
LoopRecvRsp ==
  /\ proc = "running" /\ mainPc = "wait" /\ subRspChan # << >>
  /\ LET rsp == RecvRsp(subRspChan) IN
       /\ subRspChan' = RestRsp(subRspChan)
       /\ consumed' = Append(consumed, rsp)
       /\ IF Publishable(rsp)
            THEN /\ mainPc' = "connect"
                 /\ cur' = rsp.id
                 /\ pubCtxErr' = IF ctxDone THEN "canceled" ELSE "nil"
                 /\ bornDone' = ctxDone
                 /\ calls' = Append(calls, SendArgs(rsp))
            ELSE /\ mainPc' = "wait"
                 /\ UNCHANGED << cur, pubCtxErr, bornDone, calls >>
  /\ elapsed' = 0
  /\ UNCHANGED << proc, ctErr, ctxVars, sigVars, ctNotify, sigG, stopG,
                  stopCalls, srcVars, subErrChan, res, opened, closed,
                  returns, busMsgs, loopReturns >>
  /\ UNCHANGED subscriber

\* Mutant of LoopCtxDone: cancellation ends the loop wherever it is, also
\* in the middle of a sendToNats call.
LoopCtxDone_Kill ==
  /\ proc = "running" /\ Running /\ ctxDone
  /\ mainPc' = "returned"
  /\ loopReturns' = loopReturns + 1
  /\ UNCHANGED << proc, ctErr, ctxVars, sigVars, ctNotify, sigG, stopG,
                  stopCalls, srcVars, subRspChan, subErrChan, pubVars,
                  histVars >>
  /\ UNCHANGED subscriber

\* Mutant of LoopCtxDone: the loop drains the queued responses before it
\* returns.
LoopCtxDone_Drain ==
  /\ proc = "running" /\ mainPc = "wait" /\ ctxDone
  /\ mainPc' = "returned"
  /\ loopReturns' = loopReturns + 1
  /\ subRspChan' = << >>
  /\ consumed' = consumed \o subRspChan
  /\ UNCHANGED << proc, ctErr, ctxVars, sigVars, ctNotify, sigG, stopG,
                  stopCalls, srcVars, subErrChan, pubVars, calls, returns,
                  busMsgs >>
  /\ UNCHANGED subscriber

\* case <-ctx.Done() (lines 134-136): return nil.
LoopCtxDone ==
  /\ proc = "running" /\ mainPc = "wait" /\ ctxDone
  /\ mainPc' = "returned"
  /\ loopReturns' = loopReturns + 1
  /\ UNCHANGED << proc, ctErr, ctxVars, sigVars, ctNotify, sigG, stopG,
                  stopCalls, srcVars, subRspChan, subErrChan, pubVars,
                  histVars >>
  /\ UNCHANGED subscriber

\* Mutant of LoopRecvErr: a SubscriptionError makes the loop return.
LoopRecvErr_Returns ==
  /\ proc = "running" /\ mainPc = "wait" /\ subErrChan > 0
  /\ subErrChan' = subErrChan - 1
  /\ mainPc' = "returned"
  /\ loopReturns' = loopReturns + 1
  /\ UNCHANGED << proc, ctErr, ctxVars, sigVars, ctNotify, sigG, stopG,
                  stopCalls, srcVars, subRspChan, pubVars, histVars >>
  /\ UNCHANGED subscriber

\* Mutant of LoopRecvErr: a received error makes the loop subscribe again.
LoopRecvErr_Resubscribe ==
  /\ proc = "running" /\ mainPc = "wait" /\ subErrChan > 0
  /\ subErrChan' = subErrChan - 1
  /\ mainPc' = "wait"
  /\ subG' = "spawned"
  /\ UNCHANGED << proc, ctErr, ctxVars, sigVars, ctNotify, sigG, stopG,
                  stopCalls, subscribeCalls, nextUpd, subRspChan, pubVars,
                  histVars, loopReturns >>
  /\ UNCHANGED subscriber

\* case tgErr := <-subErrChan (lines 137-140): log, continue.
LoopRecvErr ==
  /\ proc = "running" /\ mainPc = "wait" /\ subErrChan > 0
  /\ subErrChan' = subErrChan - 1
  /\ mainPc' = "wait"
  /\ UNCHANGED << proc, ctErr, ctxVars, sigVars, ctNotify, sigG, stopG,
                  stopCalls, srcVars, subRspChan, pubVars, histVars,
                  loopReturns >>
  /\ UNCHANGED subscriber

\* ---- sendToNats (lines 166-190) and its return (lines 129-132) ------------

\* Mutant of ReturnToLoop: a failed call is issued again for the same Update.
ReturnToLoop_Retry(err) ==
  /\ returns' = Append(returns, [upd |-> cur, err |-> err])
  /\ mainPc' = "wait"
  /\ cur' = 0 /\ elapsed' = 0 /\ pubCtxErr' = "nil" /\ res' = "nil"
  /\ bornDone' = FALSE
  /\ calls' = IF err # "nil" THEN Append(calls, calls[Len(calls)]) ELSE calls

\* sendToNats returns err to the loop: line 129 cancels publishCtx, lines
\* 130-132 log a non-nil err, and the loop goes back to its select.
ReturnToLoop(err) ==
  /\ returns' = Append(returns, [upd |-> cur, err |-> err])
  /\ mainPc' = "wait"
  /\ cur' = 0 /\ elapsed' = 0 /\ pubCtxErr' = "nil" /\ res' = "nil"
  /\ bornDone' = FALSE
  /\ calls' = calls

\* The deadline of publishCtx has passed.
DeadlinePassed == elapsed >= PublishTimeout

\* nats.Connect fails (lines 172-174): no connection, nothing deferred.
ConnectFail ==
  /\ proc = "running" /\ mainPc = "connect"
  /\ ReturnToLoop("connect")
  /\ UNCHANGED << proc, ctErr, ctxVars, sigVars, ctNotify, sigG, stopG,
                  stopCalls, srcVars, subRspChan, subErrChan, opened, closed,
                  consumed, busMsgs, loopReturns >>
  /\ UNCHANGED subscriber

\* nats.Connect succeeds (lines 168-175): nc is open, nc.Close is deferred.
ConnectOk ==
  /\ proc = "running" /\ mainPc = "connect"
  /\ opened' = opened + 1
  /\ mainPc' = "check"
  /\ UNCHANGED << proc, ctErr, ctxVars, sigVars, ctNotify, sigG, stopG,
                  stopCalls, srcVars, subRspChan, subErrChan, cur, elapsed,
                  pubCtxErr, res, bornDone, closed, histVars, loopReturns >>
  /\ UNCHANGED subscriber

\* Mutant of CtxCheck: the ctx.Done() case returns before nc.Close is deferred.
CtxCheck_NoClose ==
  /\ proc = "running" /\ mainPc = "check"
  /\ IF pubCtxErr # "nil"
       THEN /\ ReturnToLoop(pubCtxErr)
            /\ UNCHANGED << consumed, busMsgs >>
       ELSE /\ mainPc' = "publish"
            /\ UNCHANGED << cur, elapsed, pubCtxErr, res, bornDone, histVars >>
  /\ UNCHANGED << proc, ctErr, ctxVars, sigVars, ctNotify, sigG, stopG,
                  stopCalls, srcVars, subRspChan, subErrChan, opened, closed,
                  loopReturns >>
  /\ UNCHANGED subscriber

\* Mutant of CtxCheck: the context is not looked at before nc.Publish.
CtxCheck_Skipped ==
  /\ proc = "running" /\ mainPc = "check"
  /\ mainPc' = "publish"
  /\ UNCHANGED << proc, ctErr, ctxVars, sigVars, ctNotify, sigG, stopG,
                  stopCalls, srcVars, subRspChan, subErrChan, pubVars,
                  histVars, loopReturns >>
  /\ UNCHANGED subscriber

\* The select of lines 178-181: ctx.Done() is ready iff publishCtx has an
\* error; then the call is about to return it, else it goes on to Publish.
CtxCheck ==
  /\ proc = "running" /\ mainPc = "check"
  /\ IF pubCtxErr # "nil"
       THEN mainPc' = "close" /\ res' = pubCtxErr
       ELSE mainPc' = "publish" /\ res' = res
  /\ UNCHANGED << proc, ctErr, ctxVars, sigVars, ctNotify, sigG, stopG,
                  stopCalls, srcVars, subRspChan, subErrChan, cur, elapsed,
                  pubCtxErr, bornDone, opened, closed, histVars,
                  loopReturns >>
  /\ UNCHANGED subscriber

\* nc.Publish (lines 183-186): the message is handed to the bus, or fails.
Publish(ok) ==
  /\ proc = "running" /\ mainPc = "publish"
  /\ LET c == calls[Len(calls)] IN
       IF ok THEN /\ busMsgs' = Append(busMsgs, [upd |-> c.upd,
                                   subject |-> c.subject,
                                   data |-> c.telemetryData])
                  /\ res' = "nil"
             ELSE /\ busMsgs' = busMsgs
                  /\ res' = "publish"
  /\ mainPc' = "close"
  /\ UNCHANGED << proc, ctErr, ctxVars, sigVars, ctNotify, sigG, stopG,
                  stopCalls, srcVars, subRspChan, subErrChan, cur, elapsed,
                  pubCtxErr, bornDone, opened, closed, consumed, calls,
                  returns, loopReturns >>
  /\ UNCHANGED subscriber

\* The deferred nc.Close() (line 175) runs and sendToNats returns.
Close ==
  /\ proc = "running" /\ mainPc = "close"
  /\ closed' = closed + 1
  /\ ReturnToLoop(res)
  /\ UNCHANGED << proc, ctErr, ctxVars, sigVars, ctNotify, sigG, stopG,
                  stopCalls, srcVars, subRspChan, subErrChan, opened,
                  consumed, busMsgs, loopReturns >>
  /\ UNCHANGED subscriber

\* One unit of time passes during a sendToNats call, while it waits for
\* nats.Connect or is about to call nc.Publish (the call reads the clock
\* nowhere else).  nats.Connect ends within ConnectTimeout; the deadline of
\* publishCtx fires at PublishTimeout.
Tick ==
  /\ proc = "running" /\ mainPc \in {"connect", "publish"}
  /\ elapsed < PublishTimeout
  /\ (mainPc = "connect" => elapsed < ConnectTimeout)
  /\ elapsed' = elapsed + 1
  /\ pubCtxErr' = IF elapsed + 1 >= PublishTimeout /\ pubCtxErr = "nil"
                    THEN "deadline" ELSE pubCtxErr
  /\ UNCHANGED << mainVars, ctxVars, sigVars, ctNotify, sigG, stopG, stopCalls,
                  srcVars, subRspChan, subErrChan, cur, res, bornDone, opened,
                  closed, histVars, loopReturns >>
  /\ UNCHANGED subscriber

\* ---- main returns (lines 209, 227-228) ------------------------------------

\* collectTelemetry has returned: the deferred cancel() runs, main returns
\* and the process exits with status 0, ending every goroutine.
MainExit ==
  /\ mainPc = "returned" /\ proc = "running"
  /\ RootCancel
  /\ proc' = "exit0"
  /\ mainPc' = "exited"
  /\ UNCHANGED << ctErr, sigVars, ctNotify, sigG, stopG, stopCalls, srcVars,
                  subRspChan, subErrChan, cur, elapsed, res, bornDone,
                  opened, closed, histVars, loopReturns >>
  /\ UNCHANGED subscriber

\* ---- the subscriber (cmd/subscriber/subscriber.go) ------------------------

\* The subscriber process has neither exited nor been killed.
SubscriberAlive ==
  subscriber.pc \in {"connect", "subscribe", "notify", "wait", "unsubscribe",
                     "drain", "return"}

\* nats.Connect(nats.DefaultURL), lines 13-17: a failure is log.Fatal.
SubscriberConnect(ok) ==
  /\ subscriber.pc = "connect"
  /\ subscriber' = IF ok THEN [subscriber EXCEPT !.nc = "open",
                                                 !.pc = "subscribe"]
                         ELSE [subscriber EXCEPT !.pc = "fatal"]
  /\ UNCHANGED publisherVars

\* nc.Subscribe("interface-counters", callback), lines 21-26.
SubscriberSubscribe(ok) ==
  /\ subscriber.pc = "subscribe"
  /\ subscriber' = IF ok THEN [subscriber EXCEPT !.sub = "active",
                                                 !.pc = "notify"]
                         ELSE [subscriber EXCEPT !.pc = "fatal"]
  /\ UNCHANGED publisherVars

\* make(chan os.Signal, 1) and signal.Notify, lines 29-30.
SubscriberNotify ==
  /\ subscriber.pc = "notify"
  /\ subscriber' = [subscriber EXCEPT !.pc = "wait"]
  /\ UNCHANGED publisherVars

\* The OS delivers a termination signal to the subscriber: before
\* signal.Notify it ends the process, after it the signal goes into c unless
\* c is full.
SubscriberSignal(s) ==
  /\ SubscriberAlive
  /\ subscriber' = IF subscriber.pc \in {"connect", "subscribe", "notify"}
                     THEN [subscriber EXCEPT !.pc = "killed"]
                     ELSE [subscriber EXCEPT !.c = NotifySend(@, s)]
  /\ UNCHANGED publisherVars

\* The bus delivers a message on the subject to the connection, which queues
\* it for the subscription until the callback takes it.
BusDeliver ==
  /\ SubscriberAlive /\ subscriber.sub = "active"
  /\ subscriber.nextMsg <= MaxMsgs
  /\ subscriber' = [subscriber EXCEPT
                      !.pending = Append(@, subscriber.nextMsg),
                      !.nextMsg = @ + 1]
  /\ UNCHANGED publisherVars

\* The delivery goroutine of the subscription hands the oldest pending
\* message to the callback of lines 21-23, which logs it.  It delivers only
\* while the subscription is open.
MsgCallback ==
  /\ SubscriberAlive /\ subscriber.sub = "active"
  /\ subscriber.pending # << >>
  /\ subscriber' = [subscriber EXCEPT
                      !.handled = @ \cup {Head(subscriber.pending)},
                      !.pending = Tail(@)]
  /\ UNCHANGED publisherVars

\* <-c returns, line 33.
SubscriberRecvSig ==
  /\ subscriber.pc = "wait" /\ subscriber.c > 0
  /\ subscriber' = [subscriber EXCEPT
                      !.c = @ - 1,
                      !.sigReceived = TRUE,
                      !.pendingAtSig = {subscriber.pending[i] :
                                          i \in 1..Len(subscriber.pending)},
                      !.pc = "unsubscribe"]
  /\ UNCHANGED publisherVars

\* sub.Unsubscribe(), lines 36-38: the subscription is removed and closed at
\* once, and the messages still queued for it are discarded, not delivered;
\* a failure is log.Fatal.
SubscriberUnsubscribe(ok) ==
  /\ subscriber.pc = "unsubscribe"
  /\ subscriber' = IF ok THEN [subscriber EXCEPT !.sub = "closed",
                                                 !.pending = << >>,
                                                 !.pc = "drain"]
                         ELSE [subscriber EXCEPT !.pc = "fatal"]
  /\ UNCHANGED publisherVars

\* nc.Drain(), lines 39-41: the connection starts to drain in a goroutine of
\* its own and the call returns; a failure is log.Fatal.
SubscriberDrain(ok) ==
  /\ subscriber.pc = "drain"
  /\ subscriber' = IF ok THEN [subscriber EXCEPT !.nc = "draining",
                                                 !.pc = "return"]
                         ELSE [subscriber EXCEPT !.pc = "fatal"]
  /\ UNCHANGED publisherVars

\* The drain goroutine finishes: no subscription is left to drain, and the
\* connection is closed.
DrainRun ==
  /\ SubscriberAlive /\ subscriber.nc = "draining"
  /\ subscriber' = [subscriber EXCEPT !.nc = "closed"]
  /\ UNCHANGED publisherVars

\* main returns, line 42: the deferred nc.Close() of line 17 runs and the
\* process exits, ending every goroutine.
SubscriberExit ==
  /\ subscriber.pc = "return"
  /\ subscriber' = [subscriber EXCEPT !.nc = "closed", !.pc = "exited"]
  /\ UNCHANGED publisherVars

SubscriberNext ==
  \/ \E ok \in BOOLEAN : SubscriberConnect(ok)
  \/ \E ok \in BOOLEAN : SubscriberSubscribe(ok)
  \/ SubscriberNotify
  \/ \E s \in Signals : SubscriberSignal(s)
  \/ BusDeliver
  \/ MsgCallback
  \/ SubscriberRecvSig
  \/ \E ok \in BOOLEAN : SubscriberUnsubscribe(ok)
  \/ \E ok \in BOOLEAN : SubscriberDrain(ok)
  \/ DrainRun
  \/ SubscriberExit

SubscriberSpec == Init /\ [][SubscriberNext]_vars

\* ---- the specification ----------------------------------------------------

Next ==
  \/ \E ok \in BOOLEAN : NewTarget(ok)
  \/ \E ok \in BOOLEAN : CreateClient(ok)
  \/ \E ok \in BOOLEAN : NewSubReq(ok)
  \/ StartStreaming
  \/ \E s \in Signals : Signal(s)
  \/ SigRecv
  \/ SigCancel
  \/ StopOnSignal
  \/ StopOnCtxDone
  \/ StopReturn
  \/ \E ok \in BOOLEAN : SubscribeRun(ok)
  \/ \E kind \in Kinds : SourceEmitUpdate(kind)
  \/ SourceEmitError
  \/ LoopRecvRsp
  \/ LoopCtxDone
  \/ LoopRecvErr
  \/ ConnectFail
  \/ ConnectOk
  \/ CtxCheck
  \/ \E ok \in BOOLEAN : Publish(ok)
  \/ Close
  \/ Tick
  \/ MainExit

Spec == Init /\ [][Next]_vars


\* The goroutines run whenever they can; a select that is ready again and
\* again takes each of its ready cases eventually (Go picks among the ready
\* cases at random); nats.Connect, the context check, nc.Publish and
\* nc.Close end.  Nothing is assumed of the source, of the OS, or of
\* StopSubscription.
Fairness ==
  /\ WF_vars(SigRecv)
  /\ WF_vars(SigCancel)
  /\ SF_vars(LoopCtxDone)
  /\ WF_vars(ConnectOk \/ ConnectFail)
  /\ WF_vars(CtxCheck)
  /\ WF_vars(\E ok \in BOOLEAN : Publish(ok))
  /\ WF_vars(Close)
  /\ WF_vars(MainExit)

FairSpec == Init /\ [][Next]_vars /\ Fairness

\* ---- the claims -----------------------------------------------------------

\* The message of Update id has been handed to the bus.
Sent(id) == \E i \in 1..Len(busMsgs) : busMsgs[i].upd = id

\* The number of sendToNats calls issued for Update id.
CallsFor(id) == Cardinality({k \in 1..Len(calls) : calls[k].upd = id})

\* C1: the publish calls are issued in the order in which the source
\* delivered the Updates (the ids ascend), each call is for an Update the
\* loop received, and a call is issued only after every earlier call has
\* returned: the returned calls are a prefix of the issued ones and at most
\* one call, the last, is still in progress.
C1_PublishOrder ==
  /\ \A i, j \in 1..Len(calls) : i < j => calls[i].upd < calls[j].upd
  /\ \A i, j \in 1..Len(consumed) : i < j => consumed[i].id < consumed[j].id
  /\ \A i \in 1..Len(calls) :
       \E k \in 1..Len(consumed) : consumed[k].id = calls[i].upd
  /\ Len(returns) <= Len(calls) /\ Len(calls) <= Len(returns) + 1
  /\ \A i \in 1..Len(returns) : returns[i].upd = calls[i].upd
  /\ (Len(calls) = Len(returns) + 1) <=> InSend

\* C1 witness: two Updates were queued together and both publish calls were
\* issued and have returned.
C1_Witness ==
  /\ Len(calls) = 2 /\ Len(returns) = 2
  /\ Len(consumed) = 2 /\ nextUpd > 2 /\ subRspChan = << >>

\* C2: once the loop has been entered, it has returned only if the root
\* context was cancelled by main's signal goroutine, the process never takes
\* the fatal exit, and it has exited only after the loop returned.
C2_OnlyStopEndsLoop ==
  ctNotify =>
    /\ proc # "fatal"
    /\ Running \/ mainPc \in {"returned", "exited"}
    /\ ~Running => (loopReturns = 1 /\ ctxDone /\ sigG = "done")
    /\ ~ctxDone => (Running /\ proc = "running" /\ loopReturns = 0)
    /\ proc = "exit0" <=> mainPc = "exited"

\* C2 witness: a connect failure and a publish failure (or a timeout) have
\* both been returned to the loop, which is back at its select with the root
\* context live.
C2_Witness ==
  /\ mainPc = "wait" /\ ~ctxDone /\ proc = "running"
  /\ Len(returns) = 2
  /\ returns[1].err = "connect"
  /\ returns[2].err \in {"publish", "deadline"}


\* Every Update the loop has received and for which ok(u) holds has exactly
\* one sendToNats call, every other one has none, and every call is made
\* against the configured bus address and topic with the Update's encoding.
HandledOnce(ok(_)) ==
  /\ \A i \in 1..Len(consumed) :
       CallsFor(consumed[i].id) = IF ok(consumed[i]) THEN 1 ELSE 0
  /\ \A k \in 1..Len(calls) :
       /\ calls[k].natsURL = NatsURL /\ calls[k].subject = Topic
       /\ \E i \in 1..Len(consumed) :
            /\ consumed[i].id = calls[k].upd
            /\ calls[k].telemetryData = Marshal(consumed[i]).out

\* The encoding of the response succeeded (Marshal returned no error).
Encoded(u) == ~Marshal(u).err

\* C3 as stated: whatever the earlier publish calls returned, every Update
\* the loop receives whose encoding succeeds gets exactly one publish call,
\* against the configured address and topic.
C3_Original == HandledOnce(Encoded)

\* C3 as amended: whatever the earlier publish calls returned, every Update
\* the loop receives whose encoding succeeds with a non-empty output gets
\* exactly one publish call against the configured address and topic, never
\* a second one; an Update whose encoding fails or is empty gets none.
C3_HandledOnce == HandledOnce(Publishable)

\* C3 witness: the publish call for Update 1 failed or timed out, no
\* StopSignal was raised, and the call for Update 2 has been issued.
C3_Witness ==
  /\ ~ctxDone /\ ~SignalSeen
  /\ Len(returns) >= 1
  /\ returns[1].upd = 1 /\ returns[1].err \in {"connect", "publish", "deadline"}
  /\ Len(calls) = 2 /\ calls[2].upd = 2

\* C4: a connection is open only between a successful nats.Connect and the
\* return of the same call; every call that got past nats.Connect has
\* closed its connection by the time it returns, one that failed to connect
\* opened none; so with no call in progress, opened = closed.
C4_OpenedEqualsClosed ==
  /\ opened = closed \/ opened = closed + 1
  /\ (opened = closed + 1) <=> mainPc \in {"check", "publish", "close"}
  /\ ~InSend => opened = closed
  /\ closed = Cardinality({i \in 1..Len(returns) : returns[i].err # "connect"})

\* C4 witness: one call failed to connect, one returned a context error after
\* connecting, no call is in progress, and one connection was opened and closed.
C4_Witness ==
  /\ ~InSend /\ Len(returns) = 2
  /\ returns[1].err = "connect"
  /\ returns[2].err \in {"deadline", "canceled"}
  /\ opened = 1 /\ closed = 1


\* A termination signal was delivered after the loop was entered (it sits in
\* the sigs channel that collectTelemetry registered on entering it), and the
\* root context is cancelled.
StoppedWhileRunning == ctNotify /\ ctSigs > 0 /\ ctxDone

\* C5 as stated: in a run in which the StopSignal is raised after the loop
\* is Running, the process has exited only if StopSubscription("sub1") was
\* invoked.
C5_StopBeforeExit ==
  (proc = "exit0" /\ StoppedWhileRunning) =>
     \E i \in 1..Len(stopCalls) : stopCalls[i] = SubName

\* C6: however many signals arrive and however the goroutines interleave,
\* StopSubscription is invoked at most once and only for "sub1", the root
\* context changes state at most once (by at most two calls of cancel, the
\* signal goroutine's and main's deferred one), the loop returns at most
\* once, and a process that has exited after entering the loop has seen it
\* return exactly once.
C6_IdempotentStop ==
  /\ Len(stopCalls) <= 1
  /\ \A i \in 1..Len(stopCalls) : stopCalls[i] = SubName
  /\ cancelEffects <= 1 /\ cancelCalls <= 2
  /\ ctxDone <=> cancelEffects = 1
  /\ loopReturns <= 1
  /\ (proc = "exit0" /\ ctNotify) => loopReturns = 1
  /\ (proc = "exit0") => (cancelCalls >= 1 /\ cancelEffects = 1)

\* C6 witness: a second signal arrived after main's goroutine had taken the
\* first, both channels hold a pending signal, the stop goroutine stopped the
\* subscription once, cancel() ran twice with one effect, and the process
\* has exited.
C6_Witness ==
  /\ proc = "exit0"
  /\ sigG = "done" /\ mainSigs = 1 /\ ctSigs = 1
  /\ Len(stopCalls) = 1 /\ cancelCalls = 2 /\ cancelEffects = 1
  /\ loopReturns = 1


\* C7: under Fairness, once a termination signal has been delivered and the
\* loop is Running, the process eventually exits with status 0; nothing is
\* assumed of the source (Updates and SubscriptionErrors may keep arriving)
\* nor of StopSubscription (it may never be invoked, or never return).
C7_SignalLeadsToExit ==
  (proc = "running" /\ Running /\ SignalSeen) ~> (proc = "exit0")

\* C7 witness: the signal came while the loop was Running and the process
\* has exited with status 0 although StopSubscription has not returned and
\* an Update and a SubscriptionError are still queued.
C7_Witness ==
  /\ proc = "exit0" /\ sigG = "done" /\ ctSigs > 0
  /\ stopG = "inStop"
  /\ subRspChan # << >> /\ subErrChan > 0


\* C8 as stated: a publish call that was in progress when the StopSignal was
\* raised (its context was derived from a live root context) has the outcome
\* it would have had without the StopSignal: it never returns the
\* cancellation of the root context as its error.
C8_Original == (InSend /\ ~bornDone) => res # "canceled"

\* C8 as amended: the StopSignal does not cut a publish call short (the loop
\* returns only from its select, with every issued call returned and every
\* connection closed), but it does decide the call's outcome when it is
\* raised before the call's context check: the call then returns the
\* context's cancellation without sending the message.  Raised after the
\* check, it leaves the call to send: nc.Publish is reached exactly by the
\* calls whose context was live at the check.
C8_NoKillButCancelled ==
  /\ ~Running => (Len(calls) = Len(returns) /\ opened = closed /\ cur = 0)
  /\ res = "canceled" => (mainPc = "close" /\ ctxDone /\ ~Sent(cur))
  /\ mainPc = "publish" => (~bornDone /\ res = "nil")
  /\ \A i \in 1..Len(returns) :
       returns[i].err = "nil" <=> Sent(returns[i].upd)

\* C8 witness: the root context was live when the call was issued, the
\* StopSignal was raised during nats.Connect, and the call is about to
\* return the cancellation without having sent the message.
C8_Witness ==
  /\ mainPc = "close" /\ ~bornDone /\ res = "canceled" /\ ~Sent(cur)
  /\ elapsed < PublishTimeout

\* The loop has consumed nothing in this step: no response and no
\* SubscriptionError has left its channel.
NothingConsumed ==
  /\ consumed' = consumed
  /\ Len(subRspChan') >= Len(subRspChan)
  /\ subErrChan' >= subErrChan

\* C9 as stated: once the root context is cancelled and the loop is at its
\* select, it consumes no further Update or SubscriptionError.
C9_Original == [][(ctxDone /\ mainPc = "wait") => NothingConsumed]_vars

\* C9 as amended: once the root context is cancelled, returning is one of
\* the steps the loop can take at every select, and it is the only one when
\* nothing is queued; when Updates or SubscriptionErrors are queued as well
\* the select may take one of them first, so the loop need not return at its
\* next wait.  The return itself consumes nothing, and nothing is consumed
\* after it: what is queued then is dropped.
C9_ReturnDropsQueue ==
  /\ [][(mainPc = "wait" /\ mainPc' = "returned") =>
          (ctxDone /\ NothingConsumed /\ subRspChan' = subRspChan)]_vars
  /\ [][~Running => NothingConsumed]_vars
  /\ [][(ctxDone /\ mainPc = "wait" /\ subRspChan = << >> /\ subErrChan = 0
          /\ mainPc' # "wait") => mainPc' = "returned"]_vars
  /\ []((proc = "running" /\ mainPc = "wait" /\ ctxDone) => ENABLED LoopCtxDone)

\* C9 witness: the loop has returned on the StopSignal after a publish call
\* that the cancellation made fail, and leaves an Update and a
\* SubscriptionError queued and unconsumed.
C9_Witness ==
  /\ mainPc = "returned" /\ loopReturns = 1
  /\ Len(returns) = 1 /\ returns[1].err = "canceled"
  /\ subRspChan # << >> /\ subErrChan > 0

\* C10 as stated: a publish call whose deadline has passed before the
\* message was sent sends nothing and returns the Timeout error.
C10_Original ==
  [][(InSend /\ DeadlinePassed /\ ~Sent(cur)) =>
       /\ busMsgs' = busMsgs
       /\ mainPc' = "wait" => returns'[Len(returns')].err = "deadline"]_vars

\* C10 as amended: the deadline starts before nats.Connect and is looked at
\* once, at the context check after a successful connect.  A call that finds
\* its context done there (the deadline has passed, or the root context was
\* cancelled) sends nothing, closes the connection it opened and returns the
\* context's error; the deadline has fired whenever PublishTimeout has
\* elapsed.  A connect failure is returned as such, and the check being
\* passed, nc.Publish is no longer held back by the deadline.
C10_TimeoutAtCheck ==
  /\ [][(mainPc = "check" /\ pubCtxErr # "nil" /\ mainPc' # "check") =>
          (mainPc' = "close" /\ res' = pubCtxErr /\ busMsgs' = busMsgs)]_vars
  /\ [][(mainPc = "close" /\ res \in {"deadline", "canceled"}
          /\ mainPc' # "close") =>
          /\ mainPc' = "wait"
          /\ returns'[Len(returns')] = [upd |-> cur, err |-> res]
          /\ busMsgs' = busMsgs /\ ~Sent(cur)
          /\ closed' = closed + 1 /\ opened' = closed']_vars
  /\ []((InSend /\ DeadlinePassed) => pubCtxErr # "nil")
  /\ [](res = "deadline" => (DeadlinePassed /\ mainPc = "close"))

\* C10 witness: the deadline passed during nats.Connect, the connect then
\* succeeded, and the call is about to close its connection and return the
\* deadline error without having sent.
C10_Witness ==
  /\ mainPc = "close" /\ res = "deadline" /\ pubCtxErr = "deadline"
  /\ ~ctxDone /\ ~Sent(cur) /\ opened = closed + 1


\* The Subscribe call for "sub1" has failed, and the loop has received the
\* SubscriptionError that reports it (a failed Subscribe reports nothing else).
SubscribeFailureLogged == subG = "failed" /\ subErrChan = 0

\* C11 as stated: once the failure of the Subscribe call has reached the
\* loop, the loop is no longer Running and collectTelemetry has returned the
\* error to its caller.
C11_Original == SubscribeFailureLogged => (~Running /\ ctErr # "nil")

\* C11 as amended: a failure of the Subscribe call is not fatal and is not
\* returned to the caller: Subscribe runs in its own goroutine after the
\* set-up has succeeded, its failure reaches the loop as a SubscriptionError
\* that is logged, the loop stays Running, and the run ends only through the
\* StopSignal, with status 0 and no error returned.
C11_SubscribeFailureContained ==
  subG = "failed" =>
    /\ ctNotify /\ subscribeCalls = 1
    /\ proc # "fatal" /\ ctErr = "nil"
    /\ ~ctxDone => (Running /\ proc = "running")
    /\ ~Running => (loopReturns = 1 /\ sigG = "done")

\* C11 witness: the Subscribe call failed, the loop has received and logged
\* the SubscriptionError, and it is back at its select with the root context
\* live and no signal delivered.
C11_Witness ==
  /\ SubscribeFailureLogged
  /\ mainPc = "wait" /\ proc = "running" /\ ~ctxDone /\ ~SignalSeen


\* Opening the telemetry session has failed: api.NewTarget failed in
\* NewTelemetryTarget, or CreateGNMIClient failed in collectTelemetry.
SessionOpenFailed == mainPc = "fatal" \/ ctErr = "creating GNMI client"

\* C12: when opening the telemetry session fails, the process never ends
\* with status 0 (it leaves through the fatal path, with the set-up error
\* reported), and in that run Subscribe is never called, the stop goroutine
\* never calls StopSubscription and sendToNats is never called.
C12_SessionOpenFailureFatal ==
  SessionOpenFailed =>
    /\ proc # "exit0"
    /\ subscribeCalls = 0 /\ stopG = "none" /\ stopCalls = << >>
    /\ calls = << >>


\* C14: a SubscriptionError is only logged.  The step that receives one from
\* subErrChan leaves the loop Running at its select, ends neither the loop
\* nor the process, starts no sendToNats call, publishes nothing and starts
\* no Subscribe; and Subscribe runs at most once in a run.
C14_ErrorOnlyLogged ==
  [][ /\ subErrChan' < subErrChan =>
           /\ mainPc = "wait" /\ mainPc' = "wait"
           /\ proc' = "running" /\ loopReturns' = loopReturns
           /\ ctErr' = ctErr
           /\ calls' = calls /\ busMsgs' = busMsgs /\ opened' = opened
           /\ subG' = subG /\ subscribeCalls' = subscribeCalls
           /\ subRspChan' = subRspChan /\ consumed' = consumed
      /\ subscribeCalls' <= 1 ]_vars

\* C14 witness: the one SubscriptionError of the run (the report of the
\* failed Subscribe) has been received by the loop, which is at its select
\* again, still Running, with nothing published and Subscribe run once.
C14_Witness ==
  /\ subG = "failed" /\ subErrChan = 0
  /\ subscribeCalls = 1 /\ loopReturns = 0
  /\ mainPc = "wait" /\ proc = "running"
  /\ calls = << >> /\ busMsgs = << >>


\* C15: publishing is strictly sequential.  At most one sendToNats call is
\* in progress and at most one bus connection is open at any time, and while
\* a call is in progress the loop starts no other call and consumes neither
\* an Update nor a SubscriptionError.
C15_StrictlySequential ==
  [][ /\ InSend => (NothingConsumed /\ calls' = calls)
      /\ Len(calls') - Len(returns') \in {0, 1}
      /\ opened' - closed' \in {0, 1} ]_vars

\* C15 witness: a call is in progress with its connection open while a
\* further Update and a SubscriptionError wait in their channels.
C15_Witness ==
  /\ InSend /\ opened = closed + 1
  /\ Len(calls) = Len(returns) + 1
  /\ subRspChan # << >> /\ subErrChan > 0


\* C16: a sendToNats call started after the root context was cancelled never
\* sends.  Such a call has a publishCtx that is cancelled from its creation;
\* it may open a bus connection, but it never reaches nc.Publish and hands
\* nothing to the bus, it returns an error (that of nats.Connect or that of
\* the context), and every connection it opened is closed when it returns.
C16_LateCallNeverSends ==
  [][ /\ (calls' # calls /\ ctxDone) => (bornDone' /\ pubCtxErr' = "canceled")
      /\ bornDone =>
           /\ pubCtxErr = "canceled"
           /\ busMsgs' = busMsgs /\ mainPc' # "publish"
           /\ returns' # returns =>
                /\ returns'[Len(returns')].upd = cur
                /\ returns'[Len(returns')].err \in {"connect", "canceled"}
                /\ opened' = closed' ]_vars

\* C16 witness: a call started after the cancellation has opened a
\* connection, found its context cancelled at the check and is about to
\* close the connection and return the error, having published nothing.
C16_Witness ==
  /\ bornDone /\ ctxDone
  /\ mainPc = "close" /\ res = "canceled"
  /\ opened = closed + 1 /\ ~Sent(cur)


\* C17: StopSubscription is invoked only by the stop goroutine, and only
\* after a termination signal reached the process or the root context was
\* cancelled: in every state in which it has been invoked, the stop
\* goroutine has left its select, and a signal has been delivered or the
\* root context is cancelled.
C17_StopOnlyOnSignalOrCancel ==
  /\ stopCalls # << >> <=> stopG \in {"inStop", "done"}
  /\ stopCalls # << >> => (SignalSeen \/ ctxDone)

\* C17 witness: the stop goroutine has invoked StopSubscription("sub1") on
\* a signal, before main's signal goroutine cancelled the root context.
C17_Witness ==
  /\ stopCalls = << SubName >> /\ stopG \in {"inStop", "done"}
  /\ SignalSeen /\ ~ctxDone /\ proc = "running"


\* C13: when the subscriber has exited after receiving a termination signal,
\* every message that was pending for its subscription when the signal was
\* received has been handed to the message callback.
C13_PendingProcessedBeforeExit ==
  (subscriber.pc = "exited" /\ subscriber.sigReceived) =>
    subscriber.pendingAtSig \subseteq subscriber.handled

====
